---- MODULE Spec2Model ----
(***************************************************************************)
(* Model of the two programs of rust-eth-ganache:                          *)
(*   src/src/contract_deploy.rs      compile, resolve, price, deploy       *)
(*   src/src/simple_transactions.rs  value transfer (main and its test)    *)
(* The chain node (Ganache), the compiler toolchain and the file system    *)
(* are the environment: their answers are nondeterministic choices.        *)
(***************************************************************************)
EXTENDS Integers, Sequences, FiniteSets, TLC

\* ---------------------------------------------------------------- bounds
MaxChainId == 2
MaxHead == 3
MaxBaseFee == 16
MaxFee == 1
MaxOtherBalance == 1
MaxGas == 4
MaxReads == 2

\* ------------------------------------------------------ program constants
Amount == 1000
Confirmations == 1

\* Option values: None is the empty tuple, Some(v) the one-element tuple.
None == <<>>
Some(v) == <<v>>
IsSome(o) == o # None
Unwrap(o) == o[1]

first_address == "first_address"
other_address == "other_address"
Addresses == {first_address, other_address}

ChainIds == 1..MaxChainId

NoError == "ok"

\* ------------------------------------------------------------- variables
VARIABLES
    flow,            \* which program runs: "deploy", "transfer", "test"
    pc,              \* position in that program
    err,             \* the error the program ended with, NoError otherwise
    errDiags,        \* diagnostics carried by a compilation error
    events,          \* history: the sign / submit / wait steps taken so far
    \* environment
    connChainId,     \* chain identifier of the Ganache instance
    rootExists,      \* does the contracts folder exist
    head,            \* number of the latest block
    balances,        \* account balances held by the node
    pool,            \* the transaction handed to the node, None before
    toolchainInvoked,\* was project.compile() called
    diagnostics,     \* diagnostics the toolchain collected in that call
    \* locals of contract_deploy.rs main
    chain_id, wallet_chain_id, project, query, abi, bytecode, block,
    gas_price, deployer, signed, contract,
    \* locals of simple_transactions.rs main / test_send_transaction
    first_balance, other_balance, initial_balance, tx, receipt, new_balance,
    \* resolution taken on its own
    reads            \* read operations made after the first resolution

envVars == <<connChainId, rootExists, head, balances, pool, toolchainInvoked,
             diagnostics>>
deployVars == <<chain_id, wallet_chain_id, project, query, abi, bytecode,
                block, gas_price, deployer, signed, contract>>
transferVars == <<first_balance, other_balance, initial_balance, tx, receipt,
                  new_balance>>
vars == <<flow, pc, err, errDiags, events, envVars, deployVars, transferVars,
          reads>>

\* ------------------------------------------------------------ environment
\* Balance the node gives the wallet's first account at start-up.
SenderBalances == {0, Amount, Amount + MaxFee}
Fees == 0..MaxFee

\* The node accepts a transaction only if the sender can pay value and fee.
Sufficient(t, fee) == balances[t.from] >= t.value + fee

\* State change of the node when it includes the pooled transaction.
ApplyTx(b, t, fee) ==
    LET debited == [b EXCEPT ![t.from] = @ - (t.value + fee)]
    IN  IF IsSome(t.to)
          THEN [debited EXCEPT ![Unwrap(t.to)] = @ + t.value]
          ELSE debited

\* The node mines the pooled transaction into block head + 1.
Mine ==
    /\ pool # None
    /\ Unwrap(pool).status = "pending"
    /\ head < MaxHead
    /\ head' = head + 1
    /\ balances' = ApplyTx(balances, Unwrap(pool).tx, Unwrap(pool).fee)
    /\ pool' = Some([Unwrap(pool) EXCEPT !.status = "mined",
                                         !.blockNumber = head + 1])
    /\ UNCHANGED <<flow, reads,
                   pc, err, errDiags, events, connChainId, rootExists,
                   toolchainInvoked, diagnostics, deployVars, transferVars>>

\* The node builds a block that does not contain the pooled transaction
\* (blocks built before the submission are not told apart).
MineEmpty ==
    /\ pool # None
    /\ head < MaxHead
    /\ head' = head + 1
    /\ UNCHANGED <<flow, reads,
                   pc, err, errDiags, events, connChainId, rootExists,
                   balances, pool, toolchainInvoked, diagnostics, deployVars,
                   transferVars>>

\* The node drops the pooled transaction.
Drop ==
    /\ pool # None
    /\ Unwrap(pool).status = "pending"
    /\ pool' = Some([Unwrap(pool) EXCEPT !.status = "dropped"])
    /\ UNCHANGED <<flow, reads,
                   pc, err, errDiags, events, connChainId, rootExists,
                   head, balances, toolchainInvoked, diagnostics, deployVars,
                   transferVars>>

\* Receipts the node can answer with for the pooled transaction: the type
\* carries an optional block number.
Receipts(p) ==
    { [block_number |-> bn, contract_address |-> ca] :
        bn \in {None, Some(p.blockNumber)},
        ca \in IF p.tx.to = None THEN {None, Some("contract")} ELSE {None} }

\* Variant: the wait does not notice that the transaction was dropped.
AwaitOutcomes_IgnoresDrop(p) ==
    CASE p.status = "pending" -> {}
      [] p.status = "dropped" -> {}
      [] p.status = "mined"   -> { Some(r) : r \in Receipts(p) }

\* Variant: the wait answers with a receipt before the transaction is mined.
AwaitOutcomes_Eager(p) ==
    CASE p.status = "pending" -> { Some(r) : r \in Receipts(p) }
      [] p.status = "dropped" -> {None}
      [] p.status = "mined"   -> { Some(r) : r \in Receipts(p) }

\* What awaiting a pending transaction with one confirmation can yield:
\* nothing while the transaction is unmined, no receipt once it is dropped,
\* a receipt as soon as it is included in a block.
AwaitOutcomes(p) ==
    CASE p.status = "pending" -> {}
      [] p.status = "dropped" -> {None}
      [] p.status = "mined"   -> { Some(r) : r \in Receipts(p) }

Fail(msg) ==
    /\ pc' = "failed"
    /\ err' = msg

\* ------------------------------------- simple_transactions.rs main (14-74)
\* line 34: balance of the wallet's first address
TransferFirstBalance ==
    /\ flow = "transfer" /\ pc = "t_first_balance"
    /\ \/ /\ first_balance' = Some(balances[first_address])
          /\ pc' = "t_other_balance"
          /\ err' = err
       \/ /\ Fail("provider error")
          /\ UNCHANGED first_balance
    /\ UNCHANGED <<flow, reads,
                   errDiags, events, envVars, deployVars,
                   other_balance, initial_balance, tx, receipt, new_balance>>

\* lines 38-40: balance of the other address
TransferOtherBalance ==
    /\ flow = "transfer" /\ pc = "t_other_balance"
    /\ \/ /\ other_balance' = Some(balances[other_address])
          /\ pc' = "t_build"
          /\ err' = err
       \/ /\ Fail("provider error")
          /\ UNCHANGED other_balance
    /\ UNCHANGED <<flow, reads,
                   errDiags, events, envVars, deployVars,
                   first_balance, initial_balance, tx, receipt, new_balance>>

\* Variant: the request pays the sender itself.
PayRequest_ToSender ==
    [to |-> Some(first_address), value |-> Amount, from |-> first_address,
     data |-> None, gas_price |-> None, chain_id |-> None]

\* line 49: TransactionRequest::pay(other_address, 1000).from(first_address);
\* no gas price is set on the request.
PayRequest ==
    [to |-> Some(other_address), value |-> Amount, from |-> first_address,
     data |-> None, gas_price |-> None, chain_id |-> None]

TransferBuild ==
    /\ flow = "transfer" /\ pc = "t_build"
    /\ tx' = Some(PayRequest)
    /\ pc' = "t_send"
    /\ UNCHANGED <<flow, reads,
                   err, errDiags, events, envVars, deployVars,
                   first_balance, other_balance, initial_balance, receipt,
                   new_balance>>

\* lines 52-54: provider.send_transaction(tx, None).await?  The request is
\* handed to the node unsigned; the node accepts it or answers an error.
SendTransaction(t, next) ==
    \/ \E fee \in Fees :
          /\ Sufficient(t, fee)
          /\ pool' = Some([tx |-> t, fee |-> fee, status |-> "pending",
                           blockNumber |-> 0])
          /\ events' = Append(events, "submit")
          /\ pc' = next
          /\ err' = err
    \/ /\ events' = Append(events, "submit")
       /\ Fail("provider error")
       /\ UNCHANGED pool

\* Variant: a submission that failed is sent again.
TransferSend_Retry ==
    /\ flow = "transfer" /\ pc = "t_send"
    /\ \/ SendTransaction(Unwrap(tx), "t_wait")
       \/ /\ Len(events) < 2
          /\ events' = Append(events, "submit")
          /\ UNCHANGED <<pc, err, pool>>
    /\ UNCHANGED <<flow, reads,
                   errDiags, connChainId, rootExists, head, balances,
                   toolchainInvoked, diagnostics, deployVars, transferVars>>

TransferSend ==
    /\ flow = "transfer" /\ pc = "t_send"
    /\ SendTransaction(Unwrap(tx), "t_wait")
    /\ UNCHANGED <<flow, reads,
                   errDiags, connChainId, rootExists, head, balances,
                   toolchainInvoked, diagnostics, deployVars, transferVars>>

\* lines 55-58: .confirmations(1).await?.context("Missing receipt")?
TransferWait ==
    /\ flow = "transfer" /\ pc = "t_wait"
    /\ events' = Append(events, "wait")
    /\ \/ \E o \in AwaitOutcomes(Unwrap(pool)) :
             IF IsSome(o)
               THEN /\ receipt' = o
                    /\ pc' = "t_block_number"
                    /\ err' = err
               ELSE /\ Fail("Missing receipt")
                    /\ UNCHANGED receipt
       \/ /\ Fail("provider error")
          /\ UNCHANGED receipt
    /\ UNCHANGED <<flow, reads,
                   errDiags, envVars, deployVars,
                   first_balance, other_balance, initial_balance, tx,
                   new_balance>>

\* Variant: the block number of the receipt is not looked at.
TransferBlockNumber_Unchecked ==
    /\ flow = "transfer" /\ pc = "t_block_number"
    /\ pc' = "t_new_balance"
    /\ UNCHANGED <<flow, reads,
                   err, errDiags, events, envVars, deployVars,
                   transferVars>>

\* lines 61-64: receipt.block_number.context("cannot get block number")?
TransferBlockNumber ==
    /\ flow = "transfer" /\ pc = "t_block_number"
    /\ IF IsSome(Unwrap(receipt).block_number)
         THEN /\ pc' = "t_new_balance"
              /\ err' = err
         ELSE Fail("cannot get block number")
    /\ UNCHANGED <<flow, reads,
                   errDiags, events, envVars, deployVars, transferVars>>

\* lines 67-73: balance of the other address after the transaction, Ok(())
TransferNewBalance ==
    /\ flow = "transfer" /\ pc = "t_new_balance"
    /\ \/ /\ new_balance' = Some(balances[other_address])
          /\ pc' = "done"
          /\ err' = err
       \/ /\ Fail("provider error")
          /\ UNCHANGED new_balance
    /\ UNCHANGED <<flow, reads,
                   errDiags, events, envVars, deployVars,
                   first_balance, other_balance, initial_balance, tx,
                   receipt>>

\* ------------------ simple_transactions.rs tests::test_send_transaction
\* line 144: initial_balance = provider.get_balance(other_address).unwrap()
TestInitialBalance ==
    /\ flow = "test" /\ pc = "s_initial_balance"
    /\ \/ /\ initial_balance' = Some(balances[other_address])
          /\ pc' = "s_send"
          /\ err' = err
       \/ /\ Fail("panic: unwrap on provider error")
          /\ UNCHANGED initial_balance
    /\ UNCHANGED <<flow, reads,
                   errDiags, events, envVars, deployVars,
                   first_balance, other_balance, tx, receipt, new_balance>>

\* lines 147-148: build the request and send_transaction(tx, None).unwrap()
TestSend ==
    /\ flow = "test" /\ pc = "s_send"
    /\ tx' = Some(PayRequest)
    /\ \/ \E fee \in Fees :
             /\ Sufficient(PayRequest, fee)
             /\ pool' = Some([tx |-> PayRequest, fee |-> fee,
                              status |-> "pending", blockNumber |-> 0])
             /\ pc' = "s_wait"
             /\ err' = err
       \/ /\ Fail("panic: unwrap on provider error")
          /\ UNCHANGED pool
    /\ events' = Append(events, "submit")
    /\ UNCHANGED <<flow, reads,
                   errDiags, connChainId, rootExists, head, balances,
                   toolchainInvoked, diagnostics, deployVars, first_balance,
                   other_balance,
                   initial_balance, receipt, new_balance>>

\* line 151: pending_tx.await?.context("Missing receipt")?
TestWait ==
    /\ flow = "test" /\ pc = "s_wait"
    /\ events' = Append(events, "wait")
    /\ \/ \E o \in AwaitOutcomes(Unwrap(pool)) :
             IF IsSome(o)
               THEN /\ receipt' = o
                    /\ pc' = "s_assert_mined"
                    /\ err' = err
               ELSE /\ Fail("Missing receipt")
                    /\ UNCHANGED receipt
       \/ /\ Fail("provider error")
          /\ UNCHANGED receipt
    /\ UNCHANGED <<flow, reads,
                   errDiags, envVars, deployVars,
                   first_balance, other_balance, initial_balance, tx,
                   new_balance>>

\* lines 154-157: assert!(receipt.block_number.is_some(), ...)
TestAssertMined ==
    /\ flow = "test" /\ pc = "s_assert_mined"
    /\ IF IsSome(Unwrap(receipt).block_number)
         THEN /\ pc' = "s_new_balance"
              /\ err' = err
         ELSE Fail("panic: Transaction should have been mined")
    /\ UNCHANGED <<flow, reads,
                   errDiags, events, envVars, deployVars, transferVars>>

\* lines 160-166: new_balance, assert!(new_balance > initial_balance), Ok(())
TestNewBalance ==
    /\ flow = "test" /\ pc = "s_new_balance"
    /\ \/ /\ new_balance' = Some(balances[other_address])
          /\ IF balances[other_address] > Unwrap(initial_balance)
               THEN /\ pc' = "done"
                    /\ err' = err
               ELSE Fail("panic: Recipient's balance should have increased")
       \/ /\ Fail("panic: unwrap on provider error")
          /\ UNCHANGED new_balance
    /\ UNCHANGED <<flow, reads,
                   errDiags, events, envVars, deployVars,
                   first_balance, other_balance, initial_balance, tx,
                   receipt>>

\* ------------------------------------------ contract_deploy.rs main (22-118)
contracts_folder == "examples/"
contract_name == "BUSDImplementation"
\* lines 62-65: contracts_folder + contract_name + ".sol", a relative path
contract_path == "examples/BUSDImplementation.sol"
\* line 68: the canonical form of contract_path
canonical_path == "/abs/examples/BUSDImplementation.sol"

Paths == {contract_path, canonical_path}
Names == {contract_name, "Other"}

\* Keys of the artifacts a compilation may produce.
Keys == {<<canonical_path, contract_name>>, <<contract_path, contract_name>>,
         <<canonical_path, "Other">>}

\* An artifact carries an optional ABI and an optional bytecode; the content
\* is the one of the unit it was compiled from.
ArtifactsOf(k) ==
    { [abi |-> a, bytecode |-> b] :
        a \in {None, Some(<<"abi", k>>)}, b \in {None, Some(<<"bin", k>>)} }

ArtifactMaps ==
    UNION { { m \in [ks -> UNION {ArtifactsOf(k) : k \in Keys}] :
                \A k \in ks : m[k] \in ArtifactsOf(k) } : ks \in SUBSET Keys }

\* Diagnostics of the compiler: (unit, severity).
Diagnostics == Names \X {"error", "warning"}

CompileOutputs ==
    [errors : SUBSET Diagnostics, artifacts : ArtifactMaps]

\* Variant: a batch counts as failed only when every unit reports an error.
has_compiler_errors_AllUnits(output) ==
    \A n \in Names : <<n, "error">> \in output.errors

\* output.has_compiler_errors(): some diagnostic has severity error
has_compiler_errors(output) ==
    \E d \in output.errors : d[2] = "error"

\* Variant: the root folder is not checked before the project is built.
compile_NoRootCheck(exists, built, compiled) ==
    IF ~built
      THEN [err |-> "project configuration error", diags |-> {},
            output |-> None, invoked |-> FALSE]
    ELSE IF compiled = None
      THEN [err |-> "compiler invocation error", diags |-> {},
            output |-> None, invoked |-> TRUE]
    ELSE IF has_compiler_errors(Unwrap(compiled))
      THEN [err |-> "Compiling solidity project failed",
            diags |-> Unwrap(compiled).errors,
            output |-> None, invoked |-> TRUE]
    ELSE [err |-> NoError, diags |-> {}, output |-> compiled,
          invoked |-> TRUE]

\* lines 121-152: compile(root).  The result is the next pc, the error, the
\* diagnostics carried by it, the project and whether the toolchain ran.
compile(exists, built, compiled) ==
    IF ~exists
      THEN [err |-> "Project root does not exist!", diags |-> {},
            output |-> None, invoked |-> FALSE]
    ELSE IF ~built
      THEN [err |-> "project configuration error", diags |-> {},
            output |-> None, invoked |-> FALSE]
    ELSE IF compiled = None
      THEN [err |-> "compiler invocation error", diags |-> {},
            output |-> None, invoked |-> TRUE]
    ELSE IF has_compiler_errors(Unwrap(compiled))
      THEN [err |-> "Compiling solidity project failed",
            diags |-> Unwrap(compiled).errors,
            output |-> None, invoked |-> TRUE]
    ELSE [err |-> NoError, diags |-> {}, output |-> compiled,
          invoked |-> TRUE]

\* line 40: chain_id = provider.get_chainid().await?
DeployChainId ==
    /\ flow = "deploy" /\ pc = "d_chainid"
    /\ \/ /\ chain_id' = Some(connChainId)
          /\ pc' = "d_compile"
          /\ err' = err
       \/ /\ Fail("provider error")
          /\ UNCHANGED chain_id
    /\ UNCHANGED <<flow, reads,
                   errDiags, events, envVars, wallet_chain_id, project,
                   query, abi, bytecode, block, gas_price, deployer, signed,
                   contract, transferVars>>

\* line 47: project = compile(contracts_folder).await?
DeployCompile ==
    /\ flow = "deploy" /\ pc = "d_compile"
    /\ \E built \in BOOLEAN,
          compiled \in {None} \cup {Some(o) : o \in CompileOutputs} :
          LET r == compile(rootExists, built, compiled)
          IN  /\ toolchainInvoked' = r.invoked
              /\ diagnostics' = IF r.invoked /\ compiled # None
                                  THEN Unwrap(compiled).errors ELSE {}
              /\ project' = r.output
              /\ errDiags' = r.diags
              /\ IF r.err = NoError
                   THEN /\ pc' = "d_print"
                        /\ err' = err
                   ELSE Fail(r.err)
    /\ UNCHANGED <<flow, reads,
                   events, connChainId, rootExists, head, balances,
                   pool, chain_id, wallet_chain_id, query, abi, bytecode,
                   block, gas_price, deployer, signed, contract,
                   transferVars>>

\* Variant: only the artifacts of the contract to deploy are looked at.
print_project_NamedOnly(output) ==
    IF \E k \in DOMAIN output.artifacts :
          k[2] = contract_name /\ output.artifacts[k].abi = None
      THEN "No ABI found for artifact {name}"
      ELSE NoError

\* lines 155-183: print_project(project); fails on the first artifact
\* without an ABI.
print_project(output) ==
    IF \E k \in DOMAIN output.artifacts : output.artifacts[k].abi = None
      THEN "No ABI found for artifact {name}"
      ELSE NoError

\* line 50: print_project(project.clone()).await?
DeployPrint ==
    /\ flow = "deploy" /\ pc = "d_print"
    /\ IF print_project(Unwrap(project)) = NoError
         THEN /\ pc' = "d_balance"
              /\ err' = err
         ELSE Fail(print_project(Unwrap(project)))
    /\ UNCHANGED <<flow, reads,
                   errDiags, events, envVars, deployVars, transferVars>>

\* line 53: balance = provider.get_balance(wallet.address(), None).await?
DeployBalance ==
    /\ flow = "deploy" /\ pc = "d_balance"
    /\ \/ /\ first_balance' = Some(balances[first_address])
          /\ pc' = "d_resolve"
          /\ err' = err
       \/ /\ Fail("provider error")
          /\ UNCHANGED first_balance
    /\ UNCHANGED <<flow, reads,
                   errDiags, events, envVars, deployVars,
                   other_balance, initial_balance, tx, receipt, new_balance>>

\* Variant: the artifact is looked up by contract name alone.
resolve_ByName(artifact_map, path, name) ==
    IF \A k \in DOMAIN artifact_map : k[2] # name
      THEN [err |-> "Contract not found", abi |-> None, bytecode |-> None]
    ELSE LET k == CHOOSE c \in DOMAIN artifact_map : c[2] = name
         IN  IF artifact_map[k].abi = None
               THEN [err |-> "Missing abi from contract", abi |-> None,
                     bytecode |-> None]
             ELSE IF artifact_map[k].bytecode = None
               THEN [err |-> "Missing bytecode from contract",
                     abi |-> artifact_map[k].abi, bytecode |-> None]
             ELSE [err |-> NoError, abi |-> artifact_map[k].abi,
                   bytecode |-> artifact_map[k].bytecode]

\* lines 76-84: project.find(path, name).context("Contract not found")?,
\* into_parts(), abi.context(..)?, bytecode.context(..)?
resolve(artifact_map, path, name) ==
    IF <<path, name>> \notin DOMAIN artifact_map
      THEN [err |-> "Contract not found", abi |-> None, bytecode |-> None]
    ELSE IF artifact_map[<<path, name>>].abi = None
      THEN [err |-> "Missing abi from contract", abi |-> None,
            bytecode |-> None]
    ELSE IF artifact_map[<<path, name>>].bytecode = None
      THEN [err |-> "Missing bytecode from contract",
            abi |-> artifact_map[<<path, name>>].abi, bytecode |-> None]
    ELSE [err |-> NoError, abi |-> artifact_map[<<path, name>>].abi,
          bytecode |-> artifact_map[<<path, name>>].bytecode]

\* Variant: a failed resolution is not returned, the run goes on.
DeployResolve_Continue ==
    /\ flow = "deploy" /\ pc = "d_resolve"
    /\ LET r == resolve(Unwrap(project).artifacts, canonical_path,
                        contract_name)
       IN  /\ query' = Some(<<canonical_path, contract_name>>)
           /\ abi' = r.abi
           /\ bytecode' = r.bytecode
           /\ pc' = "d_client"
    /\ UNCHANGED <<flow, reads, err,
                   errDiags, events, envVars, chain_id, wallet_chain_id,
                   project, block, gas_price, deployer, signed, contract,
                   transferVars>>

\* lines 61-84: canonicalize the contract path, then resolve the contract
DeployResolve ==
    /\ flow = "deploy" /\ pc = "d_resolve"
    /\ \/ /\ Fail("canonicalize error")
          /\ UNCHANGED <<query, abi, bytecode>>
       \/ /\ Fail("Failed to convert path to string")
          /\ UNCHANGED <<query, abi, bytecode>>
       \/ LET r == resolve(Unwrap(project).artifacts, canonical_path,
                           contract_name)
          IN  /\ query' = Some(<<canonical_path, contract_name>>)
              /\ abi' = r.abi
              /\ bytecode' = r.bytecode
              /\ IF r.err = NoError
                   THEN /\ pc' = "d_client"
                        /\ err' = err
                   ELSE Fail(r.err)
    /\ UNCHANGED <<flow, reads,
                   errDiags, events, envVars, chain_id, wallet_chain_id,
                   project, block, gas_price, deployer, signed, contract,
                   transferVars>>

\* Variant: the wallet keeps the chain id it was built with.
with_chain_id_Kept(wallet_id, id) == wallet_id

\* lines 87-95: wallet.with_chain_id(chain_id), SignerMiddleware::new,
\* ContractFactory::new, factory.deploy(())?
with_chain_id(wallet_id, id) == id

DeploymentRequest(code) ==
    [to |-> None, value |-> 0, from |-> first_address,
     data |-> code, gas_price |-> None, chain_id |-> None]

DeployClient ==
    /\ flow = "deploy" /\ pc = "d_client"
    /\ wallet_chain_id' = with_chain_id(wallet_chain_id, Unwrap(chain_id))
    /\ \/ /\ deployer' = Some(DeploymentRequest(bytecode))
          /\ pc' = "d_block"
          /\ err' = err
       \/ /\ Fail("constructor error")
          /\ UNCHANGED deployer
    /\ UNCHANGED <<flow, reads,
                   errDiags, events, envVars, chain_id, project, query,
                   abi, bytecode, block, gas_price, signed, contract,
                   transferVars>>

\* Latest blocks the node can answer with.
BaseFees == {0, 1, MaxBaseFee}
Blocks ==
    [base_fee_per_gas : {None} \cup {Some(f) : f \in BaseFees},
     gas_used : {0, MaxGas \div 2, MaxGas},
     gas_limit : {MaxGas}]

\* lines 98-102: provider.get_block(BlockNumber::Latest).await?
\*               .context("Failed to get block")  -- the context error is
\* kept in the Result and surfaces at line 105.
DeployBlock ==
    /\ flow = "deploy" /\ pc = "d_block"
    /\ \/ /\ \E b \in {None} \cup {Some(bl) : bl \in Blocks} :
                block' = Some(b)
          /\ pc' = "d_price"
          /\ err' = err
       \/ /\ Fail("provider error")
          /\ UNCHANGED block
    /\ UNCHANGED <<flow, reads,
                   errDiags, events, envVars, chain_id, wallet_chain_id,
                   project, query, abi, bytecode, gas_price, deployer, signed,
                   contract, transferVars>>

\* Block::next_block_base_fee(), as line 106 calls it: the EIP-1559 base
\* fee of the block after b, None when b has no base fee.
ElasticityMultiplier == 2
BaseFeeMaxChangeDenominator == 8
Max(a, b) == IF a >= b THEN a ELSE b

next_block_base_fee(b) ==
    LET target == b.gas_limit \div ElasticityMultiplier
    IN  IF b.base_fee_per_gas = None THEN None
        ELSE LET base == Unwrap(b.base_fee_per_gas)
             IN  IF b.gas_used > target
                   THEN Some(base + Max(1, ((base * (b.gas_used - target))
                               \div target) \div BaseFeeMaxChangeDenominator))
                 ELSE IF b.gas_used < target
                   THEN Some(base - ((base * (target - b.gas_used))
                               \div target) \div BaseFeeMaxChangeDenominator)
                 ELSE Some(base)

\* Variant: a missing base fee is replaced by a zero gas price.
price_DefaultZero(latest) ==
    IF latest = None
      THEN [err |-> "Failed to get block", gas_price |-> None]
    ELSE IF next_block_base_fee(Unwrap(latest)) = None
      THEN [err |-> NoError, gas_price |-> Some(0)]
    ELSE [err |-> NoError, gas_price |-> next_block_base_fee(Unwrap(latest))]

\* lines 105-107: block?.next_block_base_fee().context(..)?
price(latest) ==
    IF latest = None
      THEN [err |-> "Failed to get block", gas_price |-> None]
    ELSE IF next_block_base_fee(Unwrap(latest)) = None
      THEN [err |-> "Failed to get the base fee for the next block",
            gas_price |-> None]
    ELSE [err |-> NoError, gas_price |-> next_block_base_fee(Unwrap(latest))]

\* Variant: setting the price also clears the payload of the request.
set_gas_price_Clobbers(t, p) == [t EXCEPT !.gas_price = p, !.data = None]

\* Variant: the computed price is not put on the request.
set_gas_price_Dropped(t, p) == t

\* line 108: deployer.tx.set_gas_price(gas_price)
set_gas_price(t, p) == [t EXCEPT !.gas_price = p]

\* lines 105-108
DeployPrice ==
    /\ flow = "deploy" /\ pc = "d_price"
    /\ LET r == price(Unwrap(block))
       IN  IF r.err = NoError
             THEN /\ gas_price' = r.gas_price
                  /\ deployer' = Some(set_gas_price(Unwrap(deployer),
                                                    r.gas_price))
                  /\ pc' = "d_sign"
                  /\ err' = err
             ELSE /\ Fail(r.err)
                  /\ UNCHANGED <<gas_price, deployer>>
    /\ UNCHANGED <<flow, reads,
                   errDiags, events, envVars, chain_id, wallet_chain_id,
                   project, query, abi, bytecode, block, signed, contract,
                   transferVars>>

\* Variant: the factory is built on the plain provider, so the request goes
\* to the node without being signed by the wallet.
DeploySign_PlainProvider ==
    /\ flow = "deploy" /\ pc = "d_sign"
    /\ signed' = Some([Unwrap(deployer) EXCEPT
                          !.chain_id = Some(connChainId)])
    /\ events' = Append(events, "submit")
    /\ pc' = "d_submit"
    /\ UNCHANGED <<flow, reads,
                   err, errDiags, envVars, chain_id, wallet_chain_id,
                   project, query, abi, bytecode, block, gas_price, deployer,
                   contract, transferVars>>

\* line 111, first part of deployer.legacy().send(): the signing client
\* fills the request and signs it for the chain id the wallet is bound to.
DeploySign ==
    /\ flow = "deploy" /\ pc = "d_sign"
    /\ \/ /\ signed' = Some([Unwrap(deployer) EXCEPT
                                !.chain_id = Some(wallet_chain_id)])
          /\ events' = Append(events, "sign")
          /\ pc' = "d_submit"
          /\ err' = err
       \/ /\ Fail("provider error")
          /\ UNCHANGED <<signed, events>>
    /\ UNCHANGED <<flow, reads,
                   errDiags, envVars, chain_id, wallet_chain_id,
                   project, query, abi, bytecode, block, gas_price, deployer,
                   contract, transferVars>>

\* line 111, second part: the signed transaction is sent to the node, which
\* accepts it only if it is signed for the node's chain id and can be paid.
DeploySubmit ==
    /\ flow = "deploy" /\ pc = "d_submit"
    /\ events' = Append(events, "submit")
    /\ \/ \E fee \in Fees :
             /\ Unwrap(signed).chain_id = Some(connChainId)
             /\ Sufficient(Unwrap(signed), fee)
             /\ pool' = Some([tx |-> Unwrap(signed), fee |-> fee,
                              status |-> "pending", blockNumber |-> 0])
             /\ pc' = "d_wait"
             /\ err' = err
       \/ /\ Fail("provider error")
          /\ UNCHANGED pool
    /\ UNCHANGED <<flow, reads,
                   errDiags, connChainId, rootExists, head, balances,
                   toolchainInvoked, diagnostics, deployVars, transferVars>>

\* line 111, last part: send() awaits the receipt and takes the address of
\* the contract from it; lines 112-117 print it and return Ok(()).
DeployWait ==
    /\ flow = "deploy" /\ pc = "d_wait"
    /\ events' = Append(events, "wait")
    /\ \/ \E o \in AwaitOutcomes(Unwrap(pool)) :
             IF IsSome(o) /\ IsSome(Unwrap(o).contract_address)
               THEN /\ contract' = Unwrap(o).contract_address
                    /\ pc' = "done"
                    /\ err' = err
               ELSE /\ Fail("contract not deployed")
                    /\ UNCHANGED contract
       \/ /\ Fail("provider error")
          /\ UNCHANGED contract
    /\ UNCHANGED <<flow, reads,
                   errDiags, envVars, chain_id, wallet_chain_id,
                   project, query, abi, bytecode, block, gas_price, deployer,
                   signed, transferVars>>

\* ---------------------------------------------------------- specification
StartPc(f) ==
    CASE f = "transfer" -> "t_first_balance"
      [] f = "test"     -> "s_initial_balance"
      [] f = "deploy"   -> "d_chainid"

\* State after Ganache is spawned and the wallet is built from its first key
\* (lines 16-31 of simple_transactions.rs, 24-39 of contract_deploy.rs).
Init ==
    /\ flow \in {"deploy", "transfer", "test"}
    /\ pc = StartPc(flow)
    /\ err = NoError
    /\ errDiags = {}
    /\ events = <<>>
    /\ connChainId \in ChainIds
    /\ rootExists \in IF flow = "deploy" THEN BOOLEAN ELSE {FALSE}
    /\ head = 0
    /\ balances \in { [a \in Addresses |->
                         IF a = first_address THEN s ELSE o] :
                       s \in SenderBalances, o \in 0..MaxOtherBalance }
    /\ pool = None
    /\ toolchainInvoked = FALSE
    /\ diagnostics = {}
    /\ chain_id = None
    /\ wallet_chain_id \in ChainIds
    /\ project = None
    /\ query = None
    /\ abi = None
    /\ bytecode = None
    /\ block = None
    /\ gas_price = None
    /\ deployer = None
    /\ signed = None
    /\ contract = None
    /\ first_balance = None
    /\ other_balance = None
    /\ initial_balance = None
    /\ tx = None
    /\ receipt = None
    /\ new_balance = None
    /\ reads = <<>>

Next ==
    \/ Mine
    \/ MineEmpty
    \/ Drop
    \/ TransferFirstBalance
    \/ TransferOtherBalance
    \/ TransferBuild
    \/ TransferSend
    \/ TransferWait
    \/ TransferBlockNumber
    \/ TransferNewBalance
    \/ TestInitialBalance
    \/ TestSend
    \/ TestWait
    \/ TestAssertMined
    \/ TestNewBalance
    \/ DeployChainId
    \/ DeployCompile
    \/ DeployPrint
    \/ DeployBalance
    \/ DeployResolve
    \/ DeployClient
    \/ DeployBlock
    \/ DeployPrice
    \/ DeploySign
    \/ DeploySubmit
    \/ DeployWait

Spec == Init /\ [][Next]_vars

\* ---------------------------------------------------------------- fairness
\* A step of one of the programs.
ProgramNext ==
    \/ TransferFirstBalance \/ TransferOtherBalance \/ TransferBuild
    \/ TransferSend \/ TransferWait \/ TransferBlockNumber
    \/ TransferNewBalance
    \/ TestInitialBalance \/ TestSend \/ TestWait \/ TestAssertMined
    \/ TestNewBalance
    \/ DeployChainId \/ DeployCompile \/ DeployPrint \/ DeployBalance
    \/ DeployResolve \/ DeployClient \/ DeployBlock \/ DeployPrice
    \/ DeploySign \/ DeploySubmit \/ DeployWait

\* A step the runtime owes the program: the program keeps running and its
\* awaits keep polling, so a step that needs no failure of the connection
\* is eventually taken.  A failure of the connection is never owed.
Progress ==
    /\ ProgramNext
    /\ err' \notin {"provider error", "panic: unwrap on provider error"}

\* Start of a run against a fresh Ganache: the first account is funded and
\* the other address holds nothing (lines 123-128 and 170-188 of
\* simple_transactions.rs).
InitFunded ==
    /\ Init
    /\ balances = [a \in Addresses |->
                     IF a = first_address THEN Amount + MaxFee ELSE 0]

\* The programs under the scheduling of the runtime; the node is free to
\* leave a transaction unmined for ever.
FairSpec == InitFunded /\ [][Next]_vars /\ WF_vars(Progress)

\* The same with a node that keeps working: a pooled transaction is
\* eventually included in a block or reported dropped.
LiveSpec ==
    InitFunded /\ [][Next]_vars /\ WF_vars(Progress) /\ WF_vars(Mine \/ Drop)

\* ------------------------------------------- resolution taken on its own
\* Lines 76-84 applied to any artifact map and any (path, name).
InitResolve ==
    /\ flow = "resolve"
    /\ pc = "r_call"
    /\ err = NoError
    /\ errDiags = {}
    /\ events = <<>>
    /\ connChainId = 1
    /\ rootExists = TRUE
    /\ head = 0
    /\ balances = [a \in Addresses |-> 0]
    /\ pool = None
    /\ toolchainInvoked = TRUE
    /\ diagnostics = {}
    /\ chain_id = None
    /\ wallet_chain_id = 1
    /\ project \in { Some([errors |-> {}, artifacts |-> m]) :
                        m \in ArtifactMaps }
    /\ query \in { Some(<<p, n>>) : p \in Paths, n \in Names }
    /\ abi = None
    /\ bytecode = None
    /\ block = None
    /\ gas_price = None
    /\ deployer = None
    /\ signed = None
    /\ contract = None
    /\ first_balance = None
    /\ other_balance = None
    /\ initial_balance = None
    /\ tx = None
    /\ receipt = None
    /\ new_balance = None
    /\ reads = <<>>

ResolveCall ==
    /\ flow = "resolve" /\ pc = "r_call"
    /\ LET r == resolve(Unwrap(project).artifacts, Unwrap(query)[1],
                        Unwrap(query)[2])
       IN  /\ abi' = r.abi
           /\ bytecode' = r.bytecode
           /\ IF r.err = NoError
                THEN /\ pc' = "done"
                     /\ err' = err
                ELSE Fail(r.err)
    /\ UNCHANGED <<flow, reads,
                   errDiags, events, envVars, chain_id, wallet_chain_id,
                   project, query, block, gas_price, deployer, signed,
                   contract, transferVars>>

\* Variant: the rendering takes the project itself instead of a clone and
\* leaves it without artifacts.
ResolveRender_Consumes ==
    /\ flow = "resolve" /\ pc \in {"done", "failed"}
    /\ Len(reads) < MaxReads
    /\ reads' = Append(reads, <<"render", print_project(Unwrap(project))>>)
    /\ project' = Some([Unwrap(project) EXCEPT
                           !.artifacts = [k \in {} |-> None]])
    /\ UNCHANGED <<flow, pc, err, errDiags, events, envVars, chain_id,
                   wallet_chain_id, query, abi, bytecode, block, gas_price,
                   deployer, signed, contract, transferVars>>

\* line 50 after a resolution: print_project(project.clone()) reads a clone
\* of the project.
ResolveRender ==
    /\ flow = "resolve" /\ pc \in {"done", "failed"}
    /\ Len(reads) < MaxReads
    /\ reads' = Append(reads, <<"render", print_project(Unwrap(project))>>)
    /\ UNCHANGED <<flow, pc, err, errDiags, events, envVars, deployVars,
                   transferVars>>

\* lines 76-84 once more, on the same project and the same (path, name):
\* find borrows the project and the artifact found is cloned.
ResolveAgain ==
    /\ flow = "resolve" /\ pc \in {"done", "failed"}
    /\ Len(reads) < MaxReads
    /\ reads' = Append(reads,
                       <<"resolve", resolve(Unwrap(project).artifacts,
                                            Unwrap(query)[1],
                                            Unwrap(query)[2])>>)
    /\ UNCHANGED <<flow, pc, err, errDiags, events, envVars, deployVars,
                   transferVars>>

NextResolve ==
    \/ ResolveCall
    \/ ResolveRender
    \/ ResolveAgain

SpecResolve == InitResolve /\ [][NextResolve]_vars

\* ================================================================ claims
Range(seq) == {seq[i] : i \in DOMAIN seq}
IsPrefix(a, b) == Len(a) <= Len(b) /\ \A i \in DOMAIN a : a[i] = b[i]
Submitted == "submit" \in Range(events)

\* C1 (as stated): whenever the chain identifier the signer is bound to
\* differs from the connection's chain identifier, the submission step is
\* never executed and the run does not complete.
C1_MismatchNeverSubmits ==
    wallet_chain_id # connChainId => (~Submitted /\ pc # "done")

\* C1 (amended): in the deployment flow the wallet is rebound to the chain
\* identifier read from the connection before anything is signed, so every
\* deployment transaction that is signed or submitted is signed for the
\* chain identifier the connection reported; no mismatch check exists.
C1_DeploySignedForReportedChain ==
    (flow = "deploy" /\ (signed # None \/ Submitted)) =>
        /\ signed # None
        /\ Unwrap(signed).chain_id = chain_id
        /\ chain_id = Some(connChainId)

C1_Witness ==
    flow = "deploy" /\ Submitted /\ pool # None /\ connChainId = MaxChainId

C3_SignBeforeEverySubmit ==
    \A i \in DOMAIN events :
        events[i] = "submit" => \E j \in 1..(i - 1) : events[j] = "sign"

\* C3 (amended): the deployment path signs, then submits, then waits; the
\* transfer path has no signing step of its own (the request goes to the
\* node unsigned) and submits, then waits; in both a wait only starts once
\* the submit call has returned a handle.
C3_StepOrder ==
    /\ flow = "deploy" => IsPrefix(events, <<"sign", "submit", "wait">>)
    /\ flow \in {"transfer", "test"} => IsPrefix(events, <<"submit", "wait">>)
    /\ "wait" \in Range(events) => pool # None

C3_Witness ==
    flow = "deploy" /\ events = <<"sign", "submit", "wait">> /\ pc = "done"

\* C4: once a transfer of Amount with one confirmation has returned its
\* receipt and the run has completed, the receipt has a block number and the
\* recipient's balance is the balance read before the submission plus
\* exactly Amount.
C4_RecipientGainsExactlyAmount ==
    /\ (flow = "transfer" /\ pc = "done") =>
          /\ IsSome(Unwrap(receipt).block_number)
          /\ Unwrap(new_balance) = Unwrap(other_balance) + Amount
    /\ (flow = "test" /\ pc = "done") =>
          /\ IsSome(Unwrap(receipt).block_number)
          /\ Unwrap(new_balance) = Unwrap(initial_balance) + Amount

C4_Witness ==
    /\ flow = "transfer" /\ pc = "done"
    /\ Unwrap(other_balance) = MaxOtherBalance
    /\ Unwrap(new_balance) = MaxOtherBalance + Amount

\* C5: when the latest block has no base fee, pricing fails with the base
\* fee error: no gas price is produced, the deployment request keeps its
\* gas price unset and nothing is submitted.
C5_NoBaseFeeIsAnError ==
    (/\ flow = "deploy"
     /\ block # None
     /\ pc # "d_price"
     /\ IsSome(Unwrap(block))
     /\ Unwrap(Unwrap(block)).base_fee_per_gas = None) =>
        /\ pc = "failed"
        /\ err = "Failed to get the base fee for the next block"
        /\ gas_price = None
        /\ Unwrap(deployer).gas_price = None
        /\ pool = None

C5_Witness ==
    /\ flow = "deploy"
    /\ pc = "failed"
    /\ err = "Failed to get the base fee for the next block"
    /\ Unwrap(Unwrap(block)).base_fee_per_gas = None

\* C6 (as stated): every transaction handed to the node, deployment or
\* transfer, carries a gas price.
C6_EverySubmittedTxIsPriced ==
    pool # None => IsSome(Unwrap(pool).tx.gas_price)

\* C6 (amended): every deployment handed to the node carries the gas price
\* computed from the latest block (its next base fee); a transfer is handed
\* to the node with no gas price set by the program.
C6_DeploymentCarriesComputedPrice ==
    pool # None =>
        IF flow = "deploy"
          THEN /\ IsSome(Unwrap(pool).tx.gas_price)
               /\ Unwrap(pool).tx.gas_price =
                      next_block_base_fee(Unwrap(Unwrap(block)))
               /\ Unwrap(pool).tx.gas_price = gas_price
          ELSE Unwrap(pool).tx.gas_price = None

C6_Witness ==
    /\ flow = "deploy"
    /\ pool # None
    /\ Unwrap(pool).tx.gas_price # Unwrap(Unwrap(block)).base_fee_per_gas

\* C7: when the root folder does not exist, compile fails with the
\* "does not exist" error and the toolchain is never invoked.
C7_MissingRootFailsBeforeToolchain ==
    /\ ~rootExists => ~toolchainInvoked
    /\ (flow = "deploy" /\ ~rootExists /\ chain_id # None
          /\ pc # "d_compile") =>
          /\ pc = "failed"
          /\ err = "Project root does not exist!"
          /\ project = None

C7_Witness ==
    /\ flow = "deploy" /\ ~rootExists
    /\ pc = "failed" /\ err = "Project root does not exist!"

\* C8: compile is all-or-nothing: if the toolchain collected at least one
\* error, compile fails with the compilation error carrying every collected
\* diagnostic and returns no project; a project is returned only when no
\* diagnostic is an error.
C8_CompileAllOrNothing ==
    (flow = "deploy" /\ chain_id # None /\ pc # "d_compile") =>
        /\ (\E d \in diagnostics : d[2] = "error") =>
              /\ pc = "failed"
              /\ err = "Compiling solidity project failed"
              /\ errDiags = diagnostics
              /\ project = None
        /\ project # None =>
              /\ toolchainInvoked
              /\ \A d \in diagnostics : d[2] # "error"
              /\ Unwrap(project).errors = diagnostics
        /\ err = "Compiling solidity project failed" =>
              (project = None /\ \E d \in diagnostics : d[2] = "error")

C8_Witness ==
    /\ flow = "deploy"
    /\ err = "Compiling solidity project failed"
    /\ <<contract_name, "warning">> \in errDiags
    /\ <<"Other", "error">> \in errDiags
    /\ <<contract_name, "error">> \notin errDiags

\* C9: resolve answers "Contract not found" exactly when no artifact is
\* keyed by exactly (path, name); for a matching artifact it answers the
\* missing ABI error when the ABI is absent, the missing bytecode error
\* when the ABI is present and the bytecode absent, and the artifact's own
\* ABI and bytecode only when both are present.
C9_ResolveOutcome ==
    (query # None /\ pc # "r_call") =>
        LET m == Unwrap(project).artifacts
            k == Unwrap(query)
        IN  /\ err = "Contract not found" <=> k \notin DOMAIN m
            /\ k \in DOMAIN m =>
                  /\ m[k].abi = None <=> err = "Missing abi from contract"
                  /\ (m[k].abi # None /\ m[k].bytecode = None)
                        <=> err = "Missing bytecode from contract"
                  /\ (m[k].abi # None /\ m[k].bytecode # None) =>
                        (abi = m[k].abi /\ bytecode = m[k].bytecode)
            /\ (pc = "done" /\ flow = "resolve") =>
                  (k \in DOMAIN m /\ m[k].abi # None /\ m[k].bytecode # None)

C9_Witness ==
    /\ flow = "resolve" /\ pc = "failed"
    /\ err = "Contract not found"
    /\ Unwrap(query) = <<contract_path, "Other">>
    /\ <<canonical_path, "Other">> \in DOMAIN Unwrap(project).artifacts

\* C10 (as stated): a receipt is returned only when at least Confirmations
\* blocks have been built on top of the block containing the transaction.
C10_ReceiptNeedsBlocksOnTop ==
    (receipt # None /\ IsSome(Unwrap(receipt).block_number)) =>
        head - Unwrap(Unwrap(receipt).block_number) >= Confirmations

\* C10 (amended): with one required confirmation the block containing the
\* transaction is itself the confirmation: a receipt is returned only once
\* the transaction is included in a block, with Confirmations - 1 blocks on
\* top of it; while it is not included the run stays at the wait and no
\* receipt is returned.
C10_ReceiptOnlyOnceIncluded ==
    /\ receipt # None =>
          /\ Unwrap(pool).status = "mined"
          /\ Unwrap(pool).blockNumber \in 1..head
          /\ head - Unwrap(pool).blockNumber >= Confirmations - 1
          /\ IsSome(Unwrap(receipt).block_number) =>
                Unwrap(Unwrap(receipt).block_number) = Unwrap(pool).blockNumber
    /\ (pool # None /\ Unwrap(pool).status = "pending"
          /\ flow \in {"transfer", "test"}) =>
          (receipt = None /\ pc \in {"t_wait", "s_wait", "failed"})

C10_Witness ==
    /\ flow = "transfer" /\ pc = "done"
    /\ Unwrap(receipt).block_number = Some(head)

InWait == pc \in {"t_wait", "s_wait", "d_wait"}
StillPending == pool # None /\ Unwrap(pool).status = "pending"

\* C11: for a submitted transaction that is never mined and never reported
\* dropped, the confirmation wait eventually returns control to the caller
\* (on timeout or cancellation).
C11_WaitEventuallyReturns ==
    (InWait /\ StillPending) ~> (~InWait \/ ~StillPending)

Terminal == pc \in {"done", "failed"}

\* C15: with a node that keeps producing blocks and either includes the
\* transaction or reports it dropped, every run that has handed its
\* transaction to the node eventually ends, completed or failed; once ended
\* the run makes no further step.
C15_PendingReachesTerminal ==
    /\ (pool # None) ~> Terminal
    /\ [][Terminal => (pc' = pc /\ err' = err /\ events' = events)]_vars

C15_Witness ==
    /\ flow = "test" /\ pc = "failed" /\ err = "Missing receipt"
    /\ Unwrap(pool).status = "dropped"

SubmitCount == Cardinality({i \in DOMAIN events : events[i] = "submit"})
SubmitterPcs == {"t_send", "s_send", "d_submit"}

\* C12: in every attempt the transaction is handed to the connection at
\* most once and only by the submit step; after a step has failed nothing
\* is retried, and the transaction held by the node is never replaced by a
\* second submission.
C12_SubmittedAtMostOnce ==
    /\ [](SubmitCount <= 1 /\ (pool # None => SubmitCount = 1))
    /\ [][/\ events' # events /\ SubmitCount' > SubmitCount
              => pc \in SubmitterPcs
          /\ err # NoError => UNCHANGED <<pc, err, events>>
          /\ pool # None =>
                (pool' # None /\ Unwrap(pool').tx = Unwrap(pool).tx)]_vars

C12_Witness ==
    /\ pc = "failed" /\ err = "provider error"
    /\ pool # None /\ Unwrap(pool).status = "mined"
    /\ SubmitCount = 1

NothingAfterResolve ==
    deployer = None /\ block = None /\ gas_price = None /\ signed = None

NothingSubmitted == events = <<>> /\ pool = None /\ contract = None

\* C13: an error ends the attempt: when the compile, render, resolve or
\* price stage fails, the run has failed, no later stage has left any
\* effect and no transaction has been signed or submitted; a failed sign or
\* submit step is not followed by a confirmation wait.
C13_FailureStopsTheAttempt ==
    /\ err # NoError <=> pc = "failed"
    /\ (flow = "deploy" /\ chain_id # None /\ pc # "d_compile"
          /\ (~rootExists \/ \E d \in diagnostics : d[2] = "error")) =>
          /\ pc = "failed"
          /\ project = None /\ first_balance = None /\ query = None
          /\ NothingAfterResolve /\ NothingSubmitted
    /\ (flow = "deploy" /\ project # None /\ pc # "d_print"
          /\ print_project(Unwrap(project)) # NoError) =>
          /\ pc = "failed"
          /\ first_balance = None /\ query = None
          /\ NothingAfterResolve /\ NothingSubmitted
    /\ (flow = "deploy" /\ query # None
          /\ resolve(Unwrap(project).artifacts, Unwrap(query)[1],
                     Unwrap(query)[2]).err # NoError) =>
          /\ pc = "failed"
          /\ NothingAfterResolve /\ NothingSubmitted
    /\ (flow = "deploy" /\ block # None /\ pc # "d_price"
          /\ price(Unwrap(block)).err # NoError) =>
          /\ pc = "failed"
          /\ gas_price = None /\ signed = None /\ NothingSubmitted
    /\ err = "constructor error" =>
          (NothingAfterResolve /\ NothingSubmitted)
    /\ (pc = "failed" /\ pool = None) => "wait" \notin Range(events)

C13_Witness ==
    /\ flow = "deploy" /\ pc = "failed"
    /\ err = "Missing bytecode from contract"
    /\ NothingAfterResolve /\ NothingSubmitted

\* C14: resolving the same (path, name) again from the same project, with
\* renderings and other resolutions in between, gives the error, ABI and
\* bytecode of the first resolution; no read changes the project once it
\* is compiled.
C14_ReadsLeaveProjectAlone ==
    /\ [](\A i \in DOMAIN reads :
            reads[i][1] = "resolve" =>
                reads[i][2] = [err |-> err, abi |-> abi,
                               bytecode |-> bytecode])
    /\ [][project # None => project' = project]_vars

C14_Witness ==
    /\ flow = "resolve" /\ pc = "done"
    /\ Len(reads) >= 2
    /\ reads[1][1] = "render"
    /\ reads[2][1] = "resolve"
    /\ reads[2][2].abi # None /\ reads[2][2].bytecode # None

SameButGasPrice(a, b) ==
    /\ a.to = b.to /\ a.value = b.value /\ a.from = b.from
    /\ a.data = b.data

\* C16: once built, a pending transaction is changed only by the pricing
\* step, which changes its gas price alone and leaves payload, recipient,
\* amount and sender as they were built; the transaction that is signed is
\* the priced one, and after signing neither it nor its gas price changes.
C16_OnlyPricingChangesTheRequest ==
    /\ [](deployer # None =>
            /\ SameButGasPrice(Unwrap(deployer), DeploymentRequest(bytecode))
            /\ Unwrap(deployer).chain_id = None
            /\ Unwrap(deployer).gas_price = gas_price)
    /\ [](tx # None => Unwrap(tx) = PayRequest)
    /\ [](signed # None =>
            /\ SameButGasPrice(Unwrap(signed), Unwrap(deployer))
            /\ Unwrap(signed).gas_price = Unwrap(deployer).gas_price)
    /\ [](pool # None =>
            Unwrap(pool).tx = IF flow = "deploy" THEN Unwrap(signed)
                                                 ELSE Unwrap(tx))
    /\ [][/\ (deployer # None /\ deployer' # deployer) =>
                (pc = "d_price" /\ signed = None /\ pool = None)
          /\ signed # None => signed' = signed
          /\ tx # None => tx' = tx]_vars

C16_Witness ==
    /\ flow = "deploy" /\ pc = "done"
    /\ IsSome(Unwrap(deployer).gas_price)
    /\ Unwrap(pool).tx.gas_price = Unwrap(deployer).gas_price
    /\ Unwrap(pool).tx.data = bytecode

AllHaveAbi(output) ==
    \A k \in DOMAIN output.artifacts : output.artifacts[k].abi # None

\* C17: in the deployment flow the rendering runs over the whole project
\* before the resolution: a deployment is built, signed or submitted only
\* if every artifact of the project has an ABI, and an ABI missing from any
\* artifact, also one that is not being deployed, fails the attempt before
\* the contract is resolved and before any transaction is built.
C17_EveryArtifactNeedsAnAbi ==
    /\ (flow = "deploy" /\ (query # None \/ deployer # None \/ pool # None
                              \/ events # <<>>)) =>
          AllHaveAbi(Unwrap(project))
    /\ (flow = "deploy" /\ project # None /\ pc # "d_print"
          /\ ~AllHaveAbi(Unwrap(project))) =>
          /\ pc = "failed"
          /\ err = "No ABI found for artifact {name}"
          /\ query = None /\ abi = None /\ bytecode = None
          /\ deployer = None /\ signed = None /\ pool = None

C17_Witness ==
    /\ flow = "deploy" /\ pc = "failed"
    /\ err = "No ABI found for artifact {name}"
    /\ <<canonical_path, contract_name>> \in DOMAIN Unwrap(project).artifacts
    /\ Unwrap(project).artifacts[<<canonical_path, contract_name>>].abi # None
    /\ Unwrap(project).artifacts[<<canonical_path, contract_name>>].bytecode
          # None
    /\ <<canonical_path, "Other">> \in DOMAIN Unwrap(project).artifacts
    /\ Unwrap(project).artifacts[<<canonical_path, "Other">>].abi = None

====
